---- MODULE Spec2Model ----
(***************************************************************************)
(* Model of pkg/client/informers/externalversions/pipeline/v1/lister.go:   *)
(* the RefreshLister adapters (TaskRunLister, PipelineRunLister),          *)
(* needRefresh and fetchOrRefreshList.                                     *)
(*                                                                         *)
(* The remote client (List / Get) is the environment: every call picks     *)
(* its response nondeterministically from a bounded set.  Every invocation *)
(* of fetchOrRefreshList is a frame owned by one caller p; the memo        *)
(* cacheChecked is shared by all frames.  A frame advances one client call *)
(* or one memo access at a time.                                           *)
(***************************************************************************)
EXTENDS Integers, Sequences, FiniteSets, TLC

\* ---------------------------------------------------------------- bounds
MaxItems == 2
\* Longest list the server answers with in the reduced world.
MaxSmallItems == 1

\* ------------------------------------------------------- value universes
Procs == {"p1", "p2"}
Namespaces == {"ns", "other"}
Listers == {"TaskRunLister", "PipelineRunLister"}

NoErr == "nil"
ListErrors == {"list: server unavailable"}
GetErrors == {"get: not found", "get: timeout"}

\* Status.StartTime is a *metav1.Time: a nil pointer, the zero time, or a time.
StartTimes == {"nil", "zero", "set"}

\* metav1.ListOptions, reduced to the version token and one other field.
ResourceVersions == {"", "0"}
LabelSelectors == {"app=demo"}
ListOptions == [ResourceVersion : ResourceVersions, LabelSelector : LabelSelectors]

\* metav1.Time.IsZero as used by StatusIsEmpty: nil pointer or zero time.
IsZero(t) == t \in {"nil", "zero"}

\* A run (*v1.TaskRun / *v1.PipelineRun); isNil marks the nil pointer.
NilRun == [isNil |-> TRUE, Namespace |-> "", Name |-> 0, StartTime |-> "nil"]
Run(ns, name, st) == [isNil |-> FALSE, Namespace |-> ns, Name |-> name, StartTime |-> st]

\* A run list (*v1.TaskRunList / *v1.PipelineRunList); isNil marks the nil pointer.
NilList == [isNil |-> TRUE, Items |-> << >>]
RunList(its) == [isNil |-> FALSE, Items |-> its]

\* The lists the server may return for a namespace: the k-th item is named k.
ItemSeqs(ns) ==
  UNION { { [k \in 1..n |-> Run(ns, k, f[k])] : f \in [1..n -> StartTimes] } : n \in 0..MaxItems }

\* Responses of lister.List: a list (possibly nil) without error, or an error
\* together with a nil or an empty list.
ListResponses(ns) ==
  { [obj |-> RunList(s), err |-> NoErr] : s \in ItemSeqs(ns) }
    \cup { [obj |-> NilList, err |-> NoErr] }
    \cup { [obj |-> o, err |-> e] : o \in {NilList, RunList(<< >>)}, e \in ListErrors }

\* Responses of lister.Get for (ns, name): the run, a nil run, or an error.
GetResponses(ns, name) ==
  { [obj |-> Run(ns, name, st), err |-> NoErr] : st \in StartTimes }
    \cup { [obj |-> NilRun, err |-> NoErr] }
    \cup { [obj |-> NilRun, err |-> e] : e \in GetErrors }

\* The reduced world (used where two callers interleave or where fairness is
\* checked) keeps one representative of every kind of answer: a list of at
\* most MaxSmallItems items, a start time that is nil or set, one Get error,
\* no nil run, and a caller that always passes a version token.
\* In the world "one" the callers moreover all ask for the same namespace.
Worlds == {"full", "small", "one"}

ListAnswers(w, ns) ==
  IF w = "full" THEN ListResponses(ns)
  ELSE { r \in ListResponses(ns) :
           /\ Len(r.obj.Items) <= MaxSmallItems
           /\ \A k \in DOMAIN r.obj.Items : r.obj.Items[k].StartTime # "zero" }

GetAnswers(w, ns, name) ==
  IF w = "full" THEN GetResponses(ns, name)
  ELSE { r \in GetResponses(ns, name) :
           /\ r.obj.StartTime # "zero" \/ r.obj.isNil
           /\ r.obj.isNil => r.err = "get: not found" }

CallNamespaces(w) == IF w = "one" THEN {"ns"} ELSE Namespaces

CallOptions(w) ==
  IF w = "full" THEN ListOptions
  ELSE { o \in ListOptions : o.ResourceVersion = "0" }

\* ------------------------------------------------------------ the state
VARIABLES
  cacheChecked,   \* the memo: namespace -> bool (a missing key reads false)
  lister,         \* which adapter the orchestrator was built with
  active,         \* the callers that issue invocations
  world,          \* which universe of answers the environment draws from
  pc,             \* position of each frame
  namespace,      \* argument namespace
  options,        \* argument options
  runs,           \* local runs
  err,            \* local err
  items,          \* local items
  idx,            \* loop index i (1-based)
  refreshNeeded,  \* local refreshNeeded
  ret,            \* the returned (runtime.Object, error)
  memoAtStart,    \* the memo as it was when the invocation began
  calls,          \* the adapter calls of the invocation, in order
  verdicts,       \* what each needRefresh call of the invocation returned
  returnedOK      \* the namespaces some invocation has returned a nil error for

vars == << cacheChecked, lister, active, world, pc, namespace, options, runs, err,
           items, idx, refreshNeeded, ret, memoAtStart, calls, world, verdicts,
           returnedOK >>

\* ------------------------------------------------------------- adapters
TaskRunLister_GetItems(list) == IF list.isNil THEN << >> ELSE list.Items

PipelineRunLister_GetItems(list) == IF list.isNil THEN << >> ELSE list.Items

\* Variant: a nil run counts as empty.
TaskRunLister_StatusIsEmpty_NilEmpty(run) == run.isNil \/ IsZero(run.StartTime)

TaskRunLister_StatusIsEmpty(run) == (~run.isNil) /\ IsZero(run.StartTime)

PipelineRunLister_StatusIsEmpty(run) == (~run.isNil) /\ IsZero(run.StartTime)

\* Interface dispatch on RefreshLister.
GetItems(l, list) ==
  IF l = "TaskRunLister" THEN TaskRunLister_GetItems(list)
                         ELSE PipelineRunLister_GetItems(list)

\* Variant: the test on the start time is inverted.
StatusIsEmpty_Inverted(l, run) == (~run.isNil) /\ ~IsZero(run.StartTime)

StatusIsEmpty(l, run) ==
  IF l = "TaskRunLister" THEN TaskRunLister_StatusIsEmpty(run)
                         ELSE PipelineRunLister_StatusIsEmpty(run)

\* Variant: the refresh starts from empty options instead of a copy.
RefreshOptions_Fresh(opts) == [ResourceVersion |-> "", LabelSelector |-> ""]

\* ops := options.DeepCopy(); ops.ResourceVersion = ""
RefreshOptions(opts) == [opts EXCEPT !.ResourceVersion = ""]

\* ----------------------------------------------------- call log entries
ListCall(ns, opts, resp) ==
  [op |-> "List", ns |-> ns, name |-> 0, opts |-> opts, obj |-> resp.obj,
   err |-> resp.err, result |-> FALSE]

GetCall(ns, name, resp) ==
  [op |-> "Get", ns |-> ns, name |-> name, opts |-> << >>, obj |-> resp.obj,
   err |-> resp.err, result |-> FALSE]

StatusCall(run, b) ==
  [op |-> "StatusIsEmpty", ns |-> run.Namespace, name |-> run.Name, opts |-> << >>,
   obj |-> run, err |-> NoErr, result |-> b]

GetItemsCall(list) ==
  [op |-> "GetItems", ns |-> "", name |-> 0, opts |-> << >>, obj |-> list,
   err |-> NoErr, result |-> FALSE]

\* --------------------------------------------------------------- frames
NoRet == [obj |-> NilList, err |-> NoErr]
DefaultOptions == [ResourceVersion |-> "", LabelSelector |-> "app=demo"]

\* Everything but who calls and which world answers.
InitFrames ==
  /\ cacheChecked = [n \in Namespaces |-> FALSE]
  /\ lister \in Listers
  /\ pc = [p \in Procs |-> "idle"]
  /\ namespace = [p \in Procs |-> "ns"]
  /\ options = [p \in Procs |-> DefaultOptions]
  /\ runs = [p \in Procs |-> NilList]
  /\ err = [p \in Procs |-> NoErr]
  /\ items = [p \in Procs |-> << >>]
  /\ idx = [p \in Procs |-> 1]
  /\ refreshNeeded = [p \in Procs |-> FALSE]
  /\ ret = [p \in Procs |-> NoRet]
  /\ memoAtStart = [p \in Procs |-> [n \in Namespaces |-> FALSE]]
  /\ calls = [p \in Procs |-> << >>]
  /\ verdicts = [p \in Procs |-> << >>]
  /\ returnedOK = {}

\* One caller, one invocation after the other, any answer.
Init ==
  /\ InitFrames
  /\ active = {"p1"}
  /\ world = "full"

\* The caller invokes fetchOrRefreshList(lister, ns, opts, cacheChecked).
Call(p) ==
  /\ p \in active
  /\ pc[p] = "idle"
  /\ \E ns \in CallNamespaces(world), opts \in CallOptions(world) :
       /\ namespace' = [namespace EXCEPT ![p] = ns]
       /\ options' = [options EXCEPT ![p] = opts]
  /\ memoAtStart' = [memoAtStart EXCEPT ![p] = cacheChecked]
  /\ pc' = [pc EXCEPT ![p] = "list"]
  /\ UNCHANGED << cacheChecked, lister, active, world, runs, err, items, idx,
                  refreshNeeded, ret, calls, verdicts, returnedOK >>

\* Variant: a failed initial List drops the namespace from the memo.
FirstList_Invalidate(p) ==
  /\ pc[p] = "list"
  /\ \E resp \in ListAnswers(world, namespace[p]) :
       /\ calls' = [calls EXCEPT ![p] = Append(@, ListCall(namespace[p], options[p], resp))]
       /\ runs' = [runs EXCEPT ![p] = resp.obj]
       /\ err' = [err EXCEPT ![p] = resp.err]
       /\ IF resp.err # NoErr
            THEN /\ ret' = [ret EXCEPT ![p] = [obj |-> NilList, err |-> resp.err]]
                 /\ pc' = [pc EXCEPT ![p] = "done"]
                 /\ cacheChecked' = [cacheChecked EXCEPT ![namespace[p]] = FALSE]
            ELSE /\ ret' = ret
                 /\ pc' = [pc EXCEPT ![p] = "check"]
                 /\ cacheChecked' = cacheChecked
  /\ UNCHANGED << lister, active, world, namespace, options, items, idx,
                  refreshNeeded, memoAtStart, verdicts, returnedOK >>

\* runs, err := lister.List(namespace, options); if err != nil { return nil, err }
FirstList(p) ==
  /\ pc[p] = "list"
  /\ \E resp \in ListAnswers(world, namespace[p]) :
       /\ calls' = [calls EXCEPT ![p] = Append(@, ListCall(namespace[p], options[p], resp))]
       /\ runs' = [runs EXCEPT ![p] = resp.obj]
       /\ err' = [err EXCEPT ![p] = resp.err]
       /\ IF resp.err # NoErr
            THEN /\ ret' = [ret EXCEPT ![p] = [obj |-> NilList, err |-> resp.err]]
                 /\ pc' = [pc EXCEPT ![p] = "done"]
            ELSE /\ ret' = ret
                 /\ pc' = [pc EXCEPT ![p] = "check"]
  /\ UNCHANGED << cacheChecked, lister, active, world, namespace, options, items, idx,
                  refreshNeeded, memoAtStart, verdicts, returnedOK >>

\* Variant: the memo is never consulted.
CacheHit_Never(memo, ns) == FALSE

\* The memo read: cacheChecked[namespace].
CacheHit(memo, ns) == memo[ns]

\* if cacheChecked[namespace] { return runs, err }; items := lister.GetItems(runs)
CheckCache(p) ==
  /\ pc[p] = "check"
  /\ IF CacheHit(cacheChecked, namespace[p])
       THEN /\ ret' = [ret EXCEPT ![p] = [obj |-> runs[p], err |-> err[p]]]
            /\ pc' = [pc EXCEPT ![p] = "done"]
            /\ returnedOK' = returnedOK \cup {namespace[p]}
            /\ UNCHANGED << items, idx, refreshNeeded, calls >>
       ELSE /\ refreshNeeded' = [refreshNeeded EXCEPT ![p] = FALSE]
            /\ items' = [items EXCEPT ![p] = GetItems(lister, runs[p])]
            /\ calls' = [calls EXCEPT ![p] = Append(@, GetItemsCall(runs[p]))]
            /\ idx' = [idx EXCEPT ![p] = 1]
            /\ pc' = [pc EXCEPT ![p] = "scan"]
            /\ ret' = ret
            /\ returnedOK' = returnedOK
  /\ UNCHANGED << cacheChecked, lister, active, world, namespace, options, runs, err,
                  memoAtStart, verdicts >>

\* Variant: the refresh is made whether or not the scan asked for it.
AfterScan_Always(need) == "refresh"

\* Where the frame goes when the loop is left: the refresh or the final part.
AfterScan(need) == IF need THEN "refresh" ELSE "mark"

\* One needRefresh call as the invocation remembers it: the item it was about,
\* the (bool, error) it returned, and the stretch of the call log it covers.
Verdict(item, r, from, to) ==
  [item |-> item, refresh |-> r.refresh, err |-> r.err, from |-> from, to |-> to]

\* needRefresh when the item's status is not empty: return false, nil.
NeedRefreshNoGet == [refresh |-> FALSE, err |-> NoErr]

\* Loop header and the first test of needRefresh on items[i].
ScanItem(p) ==
  /\ pc[p] = "scan"
  /\ IF idx[p] > Len(items[p])
       THEN /\ pc' = [pc EXCEPT ![p] = AfterScan(refreshNeeded[p])]
            /\ UNCHANGED << idx, calls, verdicts >>
       ELSE LET item == items[p][idx[p]]
                empty == StatusIsEmpty(lister, item)
                n == Len(calls[p])
            IN /\ calls' = [calls EXCEPT ![p] = Append(@, StatusCall(item, empty))]
               /\ IF ~empty
                    THEN /\ idx' = [idx EXCEPT ![p] = @ + 1]
                         /\ pc' = pc
                         /\ verdicts' = [verdicts EXCEPT ![p] =
                                           Append(@, Verdict(item, NeedRefreshNoGet, n + 1, n + 1))]
                    ELSE /\ idx' = idx
                         /\ pc' = [pc EXCEPT ![p] = "get"]
                         /\ verdicts' = verdicts
  /\ UNCHANGED << cacheChecked, lister, active, world, namespace, options, runs, err,
                  items, refreshNeeded, ret, memoAtStart, returnedOK >>

\* Variant: the emptiness of the fresh run is returned without negation.
NeedRefreshAfterGet_SameSign(l, resp) ==
  IF resp.err # NoErr
    THEN [refresh |-> TRUE, err |-> resp.err]
    ELSE [refresh |-> StatusIsEmpty(l, resp.obj), err |-> NoErr]

\* Variant: any successful Get asks for a refresh.
NeedRefreshAfterGet_AlwaysTrue(l, resp) ==
  IF resp.err # NoErr
    THEN [refresh |-> TRUE, err |-> resp.err]
    ELSE [refresh |-> TRUE, err |-> NoErr]

\* The (bool, error) needRefresh returns once the direct Get has answered.
NeedRefreshAfterGet(l, resp) ==
  IF resp.err # NoErr
    THEN [refresh |-> TRUE, err |-> resp.err]
    ELSE [refresh |-> ~StatusIsEmpty(l, resp.obj), err |-> NoErr]

\* Variant: only an error leaves the loop.
ScanStops_ErrOnly(r) == r.err # NoErr

\* Variant: an error does not leave the loop.
ScanStops_IgnoreErr(r) == r.refresh /\ r.err = NoErr

\* The loop's test on what needRefresh returned: refresh || refreshErr != nil.
ScanStops(r) == r.refresh \/ r.err # NoErr

\* The direct Get of needRefresh and the loop's reaction to its outcome.
DirectGet(p) ==
  /\ pc[p] = "get"
  /\ LET item == items[p][idx[p]]
     IN \E resp \in GetAnswers(world, item.Namespace, item.Name) :
          LET r == NeedRefreshAfterGet(lister, resp)
              log1 == Append(calls[p], GetCall(item.Namespace, item.Name, resp))
              log2 == IF resp.err # NoErr THEN log1
                      ELSE Append(log1, StatusCall(resp.obj, StatusIsEmpty(lister, resp.obj)))
          IN /\ calls' = [calls EXCEPT ![p] = log2]
             /\ verdicts' = [verdicts EXCEPT ![p] =
                               Append(@, Verdict(item, r, Len(calls[p]), Len(log2)))]
             /\ IF ScanStops(r)
                  THEN /\ refreshNeeded' = [refreshNeeded EXCEPT ![p] = TRUE]
                       /\ idx' = idx
                       /\ pc' = [pc EXCEPT ![p] = AfterScan(TRUE)]
                  ELSE /\ refreshNeeded' = refreshNeeded
                       /\ idx' = [idx EXCEPT ![p] = @ + 1]
                       /\ pc' = [pc EXCEPT ![p] = "scan"]
  /\ UNCHANGED << cacheChecked, lister, active, world, namespace, options, runs, err,
                  items, ret, memoAtStart, returnedOK >>

\* Variant: the refresh declares new variables (:=) and the outer ones stay.
RefreshAssign_Shadowed(prev, resp) == prev

\* Variant: the refresh keeps the error only (_, err = lister.List(...)).
RefreshAssign_ErrOnly(prev, resp) == [obj |-> prev.obj, err |-> resp.err]

\* runs, err = lister.List(...): the refresh overwrites the outer runs and err.
RefreshAssign(prev, resp) == [obj |-> resp.obj, err |-> resp.err]

\* if refreshNeeded { runs, err = lister.List(namespace, *ops) }
RefreshList(p) ==
  /\ pc[p] = "refresh"
  /\ \E resp \in ListAnswers(world, namespace[p]) :
       /\ calls' = [calls EXCEPT ![p] =
                      Append(@, ListCall(namespace[p], RefreshOptions(options[p]), resp))]
       /\ LET new == RefreshAssign([obj |-> runs[p], err |-> err[p]], resp)
          IN /\ runs' = [runs EXCEPT ![p] = new.obj]
             /\ err' = [err EXCEPT ![p] = new.err]
  /\ pc' = [pc EXCEPT ![p] = "mark"]
  /\ UNCHANGED << cacheChecked, lister, active, world, namespace, options, items, idx,
                  refreshNeeded, ret, memoAtStart, verdicts, returnedOK >>

\* Variant: the namespace is marked whatever the error.
MarkedMemo_Always(memo, ns, e) == [memo EXCEPT ![ns] = TRUE]

\* Variant: the namespace is never marked.
MarkedMemo_Never(memo, ns, e) == memo

\* Variant: the entry is assigned the outcome, cacheChecked[namespace] = (err == nil).
MarkedMemo_Assign(memo, ns, e) == [memo EXCEPT ![ns] = (e = NoErr)]

\* Variant: a success marks every namespace.
MarkedMemo_All(memo, ns, e) == IF e = NoErr THEN [n \in DOMAIN memo |-> TRUE] ELSE memo

\* if err == nil { cacheChecked[namespace] = true }
MarkedMemo(memo, ns, e) == IF e = NoErr THEN [memo EXCEPT ![ns] = TRUE] ELSE memo

\* The final part: mark the namespace and return (runs, err).
MarkChecked(p) ==
  /\ pc[p] = "mark"
  /\ cacheChecked' = MarkedMemo(cacheChecked, namespace[p], err[p])
  /\ ret' = [ret EXCEPT ![p] = [obj |-> runs[p], err |-> err[p]]]
  /\ pc' = [pc EXCEPT ![p] = "done"]
  /\ returnedOK' = IF err[p] = NoErr THEN returnedOK \cup {namespace[p]} ELSE returnedOK
  /\ UNCHANGED << lister, active, world, namespace, options, runs, err, items, idx,
                  refreshNeeded, memoAtStart, calls, verdicts >>

\* The caller takes the result; the frame is gone.
Return(p) ==
  /\ pc[p] = "done"
  /\ pc' = [pc EXCEPT ![p] = "idle"]
  /\ namespace' = [namespace EXCEPT ![p] = "ns"]
  /\ options' = [options EXCEPT ![p] = DefaultOptions]
  /\ runs' = [runs EXCEPT ![p] = NilList]
  /\ err' = [err EXCEPT ![p] = NoErr]
  /\ items' = [items EXCEPT ![p] = << >>]
  /\ idx' = [idx EXCEPT ![p] = 1]
  /\ refreshNeeded' = [refreshNeeded EXCEPT ![p] = FALSE]
  /\ ret' = [ret EXCEPT ![p] = NoRet]
  /\ memoAtStart' = [memoAtStart EXCEPT ![p] = [n \in Namespaces |-> FALSE]]
  /\ calls' = [calls EXCEPT ![p] = << >>]
  /\ verdicts' = [verdicts EXCEPT ![p] = << >>]
  /\ UNCHANGED << cacheChecked, lister, active, world, returnedOK >>

Next ==
  \E p \in Procs :
    \/ Call(p)
    \/ FirstList(p)
    \/ CheckCache(p)
    \/ ScanItem(p)
    \/ DirectGet(p)
    \/ RefreshList(p)
    \/ MarkChecked(p)
    \/ Return(p)

Spec == Init /\ [][Next]_vars

\* ------------------------------------------------------ a caller that retries
\* The caller starts an invocation for namespace n.
CallFor(p, n) == Call(p) /\ namespace'[p] = n

\* The initial List of an invocation for n succeeds.
FirstListOK(p, n) == FirstList(p) /\ namespace[p] = n /\ err'[p] = NoErr

\* The refresh List of an invocation for n succeeds.
RefreshListOK(p, n) == RefreshList(p) /\ namespace[p] = n /\ err'[p] = NoErr

\* An invocation that has begun runs to its return.
Advance(p) ==
  \/ FirstList(p)
  \/ CheckCache(p)
  \/ ScanItem(p)
  \/ DirectGet(p)
  \/ RefreshList(p)
  \/ MarkChecked(p)
  \/ Return(p)

\* One caller, one invocation after the other, answers of the reduced world.
InitFair ==
  /\ InitFrames
  /\ active = {"p1"}
  /\ world = "small"

\* The caller keeps calling for every namespace, and for every namespace the
\* List calls do not fail forever.
Fairness ==
  /\ WF_vars(Advance("p1"))
  /\ \A n \in Namespaces :
       /\ SF_vars(CallFor("p1", n))
       /\ SF_vars(FirstListOK("p1", n))
       /\ SF_vars(RefreshListOK("p1", n))

SpecFair == InitFair /\ [][Next]_vars /\ Fairness

\* ------------------------------------------------- concurrent invocations
\* Two callers share the memo and run their invocations at the same time.
InitConcurrent ==
  /\ InitFrames
  /\ active = Procs
  /\ world = "small"

\* The next step of p is the map read cacheChecked[namespace] of line 139.
MemoRead(p) == pc[p] = "check"

\* The next step of p is the map write cacheChecked[namespace] = true of line 169.
MemoWrite(p) == pc[p] = "mark" /\ err[p] = NoErr

\* fetchOrRefreshList takes no lock around its accesses to the map, and a
\* map[string]bool has none of its own.
MemoLockHeld(p) == FALSE

\* Two frames are about to access the map, one of them to write, and nothing
\* orders the two accesses: a data race on the map.
Race(p, q) ==
  /\ p # q
  /\ MemoWrite(p) /\ (MemoRead(q) \/ MemoWrite(q))
  /\ ~MemoLockHeld(p) /\ ~MemoLockHeld(q)

\* What the race can do besides letting either access go first: the runtime
\* notices the concurrent map access and ends the process.
MapFault(p, q) ==
  /\ Race(p, q)
  /\ pc' = [r \in Procs |-> "fatal"]
  /\ UNCHANGED << cacheChecked, lister, active, world, namespace, options, runs, err,
                  items, idx, refreshNeeded, ret, memoAtStart, calls, verdicts,
                  returnedOK >>

\* Another thing the race can do: two unordered inserts of different new keys
\* both complete, both frames return, and only one key is left in the map.
MapLostInsert(p, q) ==
  /\ Race(p, q) /\ MemoWrite(q)
  /\ namespace[p] # namespace[q]
  /\ ~cacheChecked[namespace[p]] /\ ~cacheChecked[namespace[q]]
  /\ cacheChecked' = [cacheChecked EXCEPT ![namespace[q]] = TRUE]
  /\ ret' = [ret EXCEPT ![p] = [obj |-> runs[p], err |-> err[p]],
                        ![q] = [obj |-> runs[q], err |-> err[q]]]
  /\ pc' = [pc EXCEPT ![p] = "done", ![q] = "done"]
  /\ returnedOK' = returnedOK \cup {namespace[p], namespace[q]}
  /\ UNCHANGED << lister, active, world, namespace, options, runs, err, items, idx,
                  refreshNeeded, memoAtStart, calls, verdicts >>

NextConcurrent ==
  \/ Next
  \/ \E p, q \in Procs : MapFault(p, q)
  \/ \E p, q \in Procs : MapLostInsert(p, q)

SpecConcurrent == InitConcurrent /\ [][NextConcurrent]_vars

\* Two callers that run their invocations at the same time, all of them for
\* the same namespace (so no two different keys are ever inserted at once).
InitSameNamespace ==
  /\ InitFrames
  /\ active = Procs
  /\ world = "one"

NextSameNamespace ==
  \/ Next
  \/ \E p, q \in Procs : MapFault(p, q)

SpecSameNamespace == InitSameNamespace /\ [][NextSameNamespace]_vars

\* ----------------------------------------------------------- type check
TypeOK ==
  /\ cacheChecked \in [Namespaces -> BOOLEAN]
  /\ lister \in Listers
  /\ active \subseteq Procs
  /\ world \in Worlds
  /\ returnedOK \subseteq Namespaces
  /\ pc \in [Procs -> {"idle", "list", "check", "scan", "get", "refresh", "mark", "done",
                       "fatal"}]
  /\ namespace \in [Procs -> Namespaces]
  /\ options \in [Procs -> ListOptions]
  /\ refreshNeeded \in [Procs -> BOOLEAN]
  /\ \A p \in Procs : idx[p] \in 1..(MaxItems + 1)

\* ------------------------------------------------- reading the call log
ListCalls(p) == SelectSeq(calls[p], LAMBDA c : c.op = "List")
GetCalls(p) == SelectSeq(calls[p], LAMBDA c : c.op = "Get")
GetsFor(p, k) == SelectSeq(calls[p], LAMBDA c : c.op = "Get" /\ c.name = k)

\* The list the initial List call answered with.
Listed(p) == ListCalls(p)[1].obj

\* A run whose status has been populated / has not been populated.
HasStatus(run) == (~run.isNil) /\ run.StartTime = "set"
LacksStatus(run) == (~run.isNil) /\ run.StartTime \in {"nil", "zero"}

Returned(p) == pc[p] = "done"
UncheckedAtStart(p) == ~memoAtStart[p][namespace[p]]
CheckedAtStart(p) == memoAtStart[p][namespace[p]]

\* ------------------------------------------------------------------ C1
\* C1: an invocation that starts with memo[ns] = true makes exactly one List
\* call, with the caller's namespace and options, makes no Get call, returns
\* the list that List call produced, and leaves the memo as it found it.
C1_CheckedNamespaceOneListNoGet ==
  \A p \in Procs :
    (Returned(p) /\ CheckedAtStart(p)) =>
      /\ Len(ListCalls(p)) = 1
      /\ ListCalls(p)[1].ns = namespace[p]
      /\ ListCalls(p)[1].opts = options[p]
      /\ Len(GetCalls(p)) = 0
      /\ (ListCalls(p)[1].err = NoErr =>
            (ret[p].obj = Listed(p) /\ ret[p].err = NoErr))
      /\ cacheChecked = memoAtStart[p]

\* A checked namespace whose list holds an item without status has returned.
C1_Witness ==
  \E p \in Procs :
    /\ Returned(p) /\ CheckedAtStart(p)
    /\ ret[p].err = NoErr
    /\ ~ret[p].obj.isNil
    /\ \E k \in DOMAIN ret[p].obj.Items : LacksStatus(ret[p].obj.Items[k])

\* ------------------------------------------------------------------ C2
\* C2: an invocation on an unchecked namespace whose initial List succeeds
\* with only items that have a status makes exactly one List call and no Get
\* call, and the namespace is checked when it returns.
C2_AllHaveStatusOneListNoGetChecked ==
  \A p \in Procs :
    (/\ Returned(p) /\ UncheckedAtStart(p)
     /\ ListCalls(p)[1].err = NoErr
     /\ \A k \in DOMAIN Listed(p).Items : HasStatus(Listed(p).Items[k])) =>
      /\ Len(ListCalls(p)) = 1
      /\ Len(GetCalls(p)) = 0
      /\ cacheChecked[namespace[p]]

\* Such an invocation with a full list of items with status has returned.
C2_Witness ==
  \E p \in Procs :
    /\ Returned(p) /\ UncheckedAtStart(p)
    /\ ListCalls(p)[1].err = NoErr
    /\ Len(Listed(p).Items) = MaxItems
    /\ \A k \in DOMAIN Listed(p).Items : HasStatus(Listed(p).Items[k])
    /\ cacheChecked[namespace[p]]

\* ------------------------------------------------------------------ C3
\* Position j of the log is a direct Get that found a status on an item
\* whose listed copy had none.
Divergence(p, j) ==
  /\ calls[p][j].op = "Get"
  /\ calls[p][j].err = NoErr
  /\ HasStatus(calls[p][j].obj)
  /\ LacksStatus(Listed(p).Items[calls[p][j].name])

\* C3: when a listed item without status turns out to have a status on the
\* direct Get, the scan stops at that item: no StatusIsEmpty and no Get is
\* made for a later item, the frame goes straight to the refresh, exactly one
\* more List call is made (two in all) with the ResourceVersion cleared, and
\* the namespace is checked afterwards when that refresh List succeeded.
C3_DivergenceStopsScanAndRefreshes ==
  \A p \in Procs : \A j \in DOMAIN calls[p] :
    Divergence(p, j) =>
      /\ pc[p] \in {"refresh", "mark", "done"}
      /\ \A i \in DOMAIN calls[p] :
           calls[p][i].op \in {"Get", "StatusIsEmpty"} => calls[p][i].name <= calls[p][j].name
      /\ \A i \in DOMAIN calls[p] : (i > j /\ calls[p][i].op = "Get") => FALSE
      /\ Returned(p) =>
           /\ Len(ListCalls(p)) = 2
           /\ ListCalls(p)[2].ns = namespace[p]
           /\ ListCalls(p)[2].opts.ResourceVersion = ""
           /\ calls[p][Len(calls[p])].op = "List"
           /\ (ListCalls(p)[2].err = NoErr => cacheChecked[namespace[p]])

\* The first of two listed items diverged, the caller had passed a version
\* token, the refresh succeeded and the invocation has returned.
C3_Witness ==
  \E p \in Procs : \E j \in DOMAIN calls[p] :
    /\ Divergence(p, j)
    /\ calls[p][j].name = 1
    /\ Len(Listed(p).Items) = MaxItems
    /\ options[p].ResourceVersion # ""
    /\ Returned(p)
    /\ ret[p].err = NoErr
    /\ cacheChecked[namespace[p]]

\* ------------------------------------------------------------------ C4
\* Every direct Get of the invocation succeeded and showed an empty status.
AllGetsAgree(p) ==
  \A j \in DOMAIN calls[p] :
    calls[p][j].op = "Get" => (calls[p][j].err = NoErr /\ LacksStatus(calls[p][j].obj))

\* How many StatusIsEmpty calls were made on the listed copy of item k.
ListedStatusCalls(p, k) ==
  Len(SelectSeq(calls[p], LAMBDA c : c.op = "StatusIsEmpty" /\ c.obj = Listed(p).Items[k]))

\* C4: on an unchecked namespace, when every direct Get agrees with the
\* listed copy (empty status there too), the scan visits every item, one List
\* call is made in all, one Get per listed item without status and none for
\* an item with status, no refresh, and the namespace is checked afterwards.
C4_AgreementScansAllNoRefresh ==
  \A p \in Procs :
    (/\ Returned(p) /\ UncheckedAtStart(p)
     /\ ListCalls(p)[1].err = NoErr
     /\ AllGetsAgree(p)) =>
      /\ Len(ListCalls(p)) = 1
      /\ idx[p] = Len(Listed(p).Items) + 1
      /\ \A k \in DOMAIN Listed(p).Items :
           /\ ListedStatusCalls(p, k) >= 1
           /\ Len(GetsFor(p, k)) = IF LacksStatus(Listed(p).Items[k]) THEN 1 ELSE 0
      /\ Len(GetCalls(p)) =
           Cardinality({k \in DOMAIN Listed(p).Items : LacksStatus(Listed(p).Items[k])})
      /\ cacheChecked[namespace[p]]

\* A full list mixing items with and without status was scanned to the end
\* with at least one agreeing Get.
C4_Witness ==
  \E p \in Procs :
    /\ Returned(p) /\ UncheckedAtStart(p)
    /\ ListCalls(p)[1].err = NoErr
    /\ AllGetsAgree(p)
    /\ Len(Listed(p).Items) = MaxItems
    /\ LacksStatus(Listed(p).Items[1])
    /\ LacksStatus(Listed(p).Items[MaxItems])
    /\ Len(GetCalls(p)) = MaxItems
    /\ cacheChecked[namespace[p]]

\* ------------------------------------------------------------------ C5
\* Position j of the log is a direct Get that failed.
FailedGet(p, j) == calls[p][j].op = "Get" /\ calls[p][j].err # NoErr

\* C5: when the direct Get of an item fails (not-found included) the scan
\* stops there: the frame goes straight to the refresh, nothing is asked about
\* the remaining items, and the next call made is a List with the
\* ResourceVersion cleared and the caller's other options.
C5_GetErrorStopsScanAndRefreshes ==
  \A p \in Procs : \A j \in DOMAIN calls[p] :
    FailedGet(p, j) =>
      /\ pc[p] \in {"refresh", "mark", "done"}
      /\ (pc[p] = "refresh") = (j = Len(calls[p]))
      /\ j < Len(calls[p]) =>
           /\ Len(calls[p]) = j + 1
           /\ calls[p][j + 1].op = "List"
           /\ calls[p][j + 1].ns = namespace[p]
           /\ calls[p][j + 1].opts = RefreshOptions(options[p])
           /\ calls[p][j + 1].opts.ResourceVersion = ""
      /\ \A i \in DOMAIN calls[p] :
           calls[p][i].op \in {"Get", "StatusIsEmpty"} => calls[p][i].name <= calls[p][j].name

\* The Get of the first of two items without status answered not-found and
\* the invocation has returned after its refresh.
C5_Witness ==
  \E p \in Procs : \E j \in DOMAIN calls[p] :
    /\ FailedGet(p, j)
    /\ calls[p][j].err = "get: not found"
    /\ calls[p][j].name = 1
    /\ Len(Listed(p).Items) = MaxItems
    /\ LacksStatus(Listed(p).Items[MaxItems])
    /\ options[p].ResourceVersion # ""
    /\ Returned(p)
    /\ Len(ListCalls(p)) = 2

\* ------------------------------------------------------------------ C6
LastList(p) == ListCalls(p)[Len(ListCalls(p))]

\* C6: the error an invocation returns is the error of the last List call it
\* made; the error of a direct Get is never returned, so an invocation whose
\* Get failed and whose refresh List succeeded returns no error and marks the
\* namespace checked.
C6_ReturnedErrorIsLastListError ==
  \A p \in Procs :
    Returned(p) =>
      /\ ret[p].err = LastList(p).err
      /\ ret[p].err \notin GetErrors
      /\ ((\E j \in DOMAIN calls[p] : FailedGet(p, j)) /\ LastList(p).err = NoErr) =>
           (ret[p].err = NoErr /\ cacheChecked[namespace[p]])

\* A Get failed, the refresh List succeeded, and the invocation has returned.
C6_Witness ==
  \E p \in Procs :
    /\ Returned(p)
    /\ \E j \in DOMAIN calls[p] : FailedGet(p, j)
    /\ Len(ListCalls(p)) = 2
    /\ LastList(p).err = NoErr
    /\ ret[p].err = NoErr

\* ------------------------------------------------------------------ C7
\* C7: when a List call of the invocation fails, initial or refresh, that
\* error is returned and the memo is what it was before the invocation; when
\* it is the initial List that fails, nothing else is called.
C7_ListErrorReturnedMemoUntouched ==
  \A p \in Procs :
    Returned(p) =>
      /\ LastList(p).err # NoErr =>
           (ret[p].err = LastList(p).err /\ cacheChecked = memoAtStart[p])
      /\ ListCalls(p)[1].err # NoErr =>
           (Len(calls[p]) = 1 /\ calls[p][1].op = "List")

\* The refresh List of an invocation on an unchecked namespace failed.
C7_Witness ==
  \E p \in Procs :
    /\ Returned(p)
    /\ Len(ListCalls(p)) = 2
    /\ LastList(p).err \in ListErrors
    /\ ret[p].err \in ListErrors
    /\ ~cacheChecked[namespace[p]]

\* ------------------------------------------------------------------ C8
\* C8: the memo is monotonic: no step of any invocation, whatever the List
\* and Get outcomes, turns a true entry of the memo into false.
C8_MemoMonotonic ==
  [][\A n \in Namespaces : cacheChecked[n] => cacheChecked'[n]]_vars

\* An invocation on a checked namespace has returned a List error and the
\* namespace is still checked.
C8_Witness ==
  \E p \in Procs :
    /\ Returned(p) /\ CheckedAtStart(p)
    /\ ret[p].err \in ListErrors
    /\ cacheChecked[namespace[p]]

\* ------------------------------------------------------------------ C9
\* Position j of the log is a StatusIsEmpty call on a nil run.
StatusOfNil(p, j) == calls[p][j].op = "StatusIsEmpty" /\ calls[p][j].obj.isNil

\* C9 (as stated): StatusIsEmpty of a nil run is true, for both adapters.
C9_NilRunIsEmpty ==
  \A p \in Procs : \A j \in DOMAIN calls[p] :
    StatusOfNil(p, j) => calls[p][j].result = TRUE

\* C9 (amended): StatusIsEmpty of a nil run is false, for both adapters, so
\* a direct Get that answers a nil run without error asks for a refresh.
C9_NilRunIsNotEmpty ==
  \A p \in Procs : \A j \in DOMAIN calls[p] :
    StatusOfNil(p, j) =>
      /\ calls[p][j].result = FALSE
      /\ refreshNeeded[p]

\* StatusIsEmpty has been applied to a nil run.
C9_Witness ==
  \E p \in Procs : \E j \in DOMAIN calls[p] : StatusOfNil(p, j)

\* ----------------------------------------------------------------- C10
\* The invocation applied GetItems to a nil list.
GetItemsOfNil(p) ==
  \E j \in DOMAIN calls[p] : calls[p][j].op = "GetItems" /\ calls[p][j].obj.isNil

\* C10: GetItems of a nil list is the empty sequence, so an invocation on an
\* unchecked namespace whose successful List answered a nil list makes no Get
\* call and no refresh, and marks the namespace checked.
C10_NilListScansNothingAndChecks ==
  \A p \in Procs :
    GetItemsOfNil(p) =>
      /\ items[p] = << >>
      /\ pc[p] \in {"scan", "mark", "done"}
      /\ Len(GetCalls(p)) = 0
      /\ Len(ListCalls(p)) = 1
      /\ Returned(p) =>
           /\ ret[p] = [obj |-> NilList, err |-> NoErr]
           /\ cacheChecked[namespace[p]]

\* An invocation on an unchecked namespace got a nil list and has returned.
C10_Witness ==
  \E p \in Procs :
    /\ Returned(p) /\ UncheckedAtStart(p)
    /\ GetItemsOfNil(p)
    /\ cacheChecked[namespace[p]]

\* ----------------------------------------------------------------- C11
\* The positions of the call log that belong to the i-th needRefresh call.
GetsOfVerdict(p, i) ==
  { j \in verdicts[p][i].from .. verdicts[p][i].to : calls[p][j].op = "Get" }

\* C11: needRefresh returns (false, nil) without any Get when the item's
\* status is not empty; otherwise it makes exactly one Get, for the item's
\* namespace and name, and when that Get succeeds it returns (true, nil) if
\* the fetched run's status is not empty and (false, nil) if it is empty.
C11_NeedRefreshContract ==
  \A p \in Procs : \A i \in DOMAIN verdicts[p] :
    LET v == verdicts[p][i]
        gets == GetsOfVerdict(p, i)
    IN /\ calls[p][v.from].op = "StatusIsEmpty"
       /\ calls[p][v.from].obj = v.item
       /\ IF ~LacksStatus(v.item)
            THEN v.refresh = FALSE /\ v.err = NoErr /\ gets = {}
            ELSE /\ Cardinality(gets) = 1
                 /\ \A j \in gets :
                      /\ calls[p][j].ns = v.item.Namespace
                      /\ calls[p][j].name = v.item.Name
                      /\ calls[p][j].err = NoErr =>
                           /\ v.err = NoErr
                           /\ HasStatus(calls[p][j].obj) => v.refresh = TRUE
                           /\ LacksStatus(calls[p][j].obj) => v.refresh = FALSE

\* One invocation has had both answers that follow a Get: (false, nil) after
\* an agreeing Get and (true, nil) after a diverging one.
C11_Witness ==
  \E p \in Procs :
    \E i2, i3 \in DOMAIN verdicts[p] :
      /\ LacksStatus(verdicts[p][i2].item) /\ ~verdicts[p][i2].refresh
      /\ verdicts[p][i2].err = NoErr
      /\ \E j \in GetsOfVerdict(p, i2) : LacksStatus(calls[p][j].obj)
      /\ LacksStatus(verdicts[p][i3].item) /\ verdicts[p][i3].refresh
      /\ verdicts[p][i3].err = NoErr
      /\ \E j \in GetsOfVerdict(p, i3) : HasStatus(calls[p][j].obj)

\* ----------------------------------------------------------------- C12
\* C12: the memo is a concurrency-safe mapping: in no interleaving of
\* concurrent invocations is a write memo[ns] = true unordered with another
\* invocation's read or write of the memo.
C12_MemoAccessesSynchronized ==
  \A p, q \in Procs : ~Race(p, q)

\* ----------------------------------------------------------------- C13
\* The last List call of the invocation succeeded.
FinalListOK(p) == LastList(p).err = NoErr

\* Two returned invocations for one namespace: its entry is true exactly when
\* it was true before one of them or the final List of one of them succeeded.
C13_SameNamespaceOutcome ==
  \A p, q \in Procs :
    (/\ p # q /\ Returned(p) /\ Returned(q)
     /\ namespace[p] = namespace[q]) =>
      (cacheChecked[namespace[p]] <=>
         \/ memoAtStart[p][namespace[p]] \/ memoAtStart[q][namespace[p]]
         \/ FinalListOK(p) \/ FinalListOK(q))

\* C13: invocations for the same unchecked namespace that interleave may each
\* scan and refresh, but the outcome is that of some sequential order: the
\* entry ends up true exactly when the final List of at least one of them
\* succeeded, and no step turns a true entry back to false.
C13_ConcurrentOutcomeIdempotent ==
  /\ []C13_SameNamespaceOutcome
  /\ [][\A n \in Namespaces : cacheChecked[n] => cacheChecked'[n]]_vars

\* Both invocations found the namespace unchecked, both scanned and refreshed,
\* the refresh of one failed and that of the other succeeded.
C13_Witness ==
  \E p, q \in Procs :
    /\ p # q /\ Returned(p) /\ Returned(q)
    /\ namespace[p] = namespace[q]
    /\ UncheckedAtStart(p) /\ UncheckedAtStart(q)
    /\ Len(ListCalls(p)) = 2 /\ Len(ListCalls(q)) = 2
    /\ ~FinalListOK(p) /\ FinalListOK(q)
    /\ cacheChecked[namespace[p]]

\* ----------------------------------------------------------------- C14
\* What the List calls of an invocation were given, against the caller's options.
C14_ListOptions ==
  \A p \in Procs :
    /\ Len(ListCalls(p)) >= 1 => ListCalls(p)[1].opts = options[p]
    /\ Len(ListCalls(p)) >= 2 =>
         /\ DOMAIN ListCalls(p)[2].opts = DOMAIN options[p]
         /\ ListCalls(p)[2].opts.ResourceVersion = ""
         /\ \A f \in DOMAIN options[p] \ {"ResourceVersion"} :
              ListCalls(p)[2].opts[f] = options[p][f]

\* C14: the refresh List is given a copy of the caller's options that equals
\* them in every field except the ResourceVersion, which is empty; the
\* caller's options are not changed while the invocation runs, and the
\* initial List is given the caller's options as they are.
C14_RefreshOptionsAreClearedCopy ==
  /\ []C14_ListOptions
  /\ [][\A p \in Procs :
          (pc[p] # "idle" /\ pc'[p] # "idle") => options'[p] = options[p]]_vars

\* A caller passed a version token and a selector, the refresh List was made,
\* and the caller's options still carry the token.
C14_Witness ==
  \E p \in Procs :
    /\ Returned(p)
    /\ Len(ListCalls(p)) = 2
    /\ options[p].ResourceVersion = "0"
    /\ options[p].LabelSelector # ""
    /\ ListCalls(p)[1].opts.ResourceVersion = "0"
    /\ ListCalls(p)[2].opts.ResourceVersion = ""

\* ----------------------------------------------------------------- C15
\* Some needRefresh call of the invocation returned true or an error.
ScanTriggered(p) ==
  \E i \in DOMAIN verdicts[p] : verdicts[p][i].refresh \/ verdicts[p][i].err # NoErr

\* C15: a successful invocation returns the result of its last List call: the
\* refresh List's result whenever the scan found a divergence or a
\* verification error, the initial List's result otherwise; nothing is asked
\* of the adapter after the refresh List (the refreshed list is not rescanned).
C15_ReturnsLastListNoRescan ==
  \A p \in Procs :
    /\ \A j \in DOMAIN calls[p] :
         (calls[p][j].op = "List" /\ j > 1) => j = Len(calls[p])
    /\ (Returned(p) /\ ret[p].err = NoErr) =>
         /\ ret[p].obj = LastList(p).obj
         /\ ScanTriggered(p) =>
              (Len(ListCalls(p)) = 2 /\ ret[p].obj = ListCalls(p)[2].obj)
         /\ ~ScanTriggered(p) =>
              (Len(ListCalls(p)) = 1 /\ ret[p].obj = ListCalls(p)[1].obj)

\* The refresh answered a different list, one that still holds an item
\* without status, and that list was returned as it is.
C15_Witness ==
  \E p \in Procs :
    /\ Returned(p) /\ ret[p].err = NoErr
    /\ Len(ListCalls(p)) = 2
    /\ ListCalls(p)[2].obj # ListCalls(p)[1].obj
    /\ ret[p].obj = ListCalls(p)[2].obj
    /\ \E k \in DOMAIN ret[p].obj.Items : LacksStatus(ret[p].obj.Items[k])

\* ----------------------------------------------------------------- C16
\* An invocation on a namespace that was unchecked scans whenever its initial
\* List succeeds, and leaves the namespace checked exactly when its final List
\* succeeded.
C16_UncheckedUntilSuccess ==
  \A p \in Procs :
    (Returned(p) /\ UncheckedAtStart(p)) =>
      /\ cacheChecked[namespace[p]] <=> FinalListOK(p)
      /\ ListCalls(p)[1].err = NoErr =>
           \E j \in DOMAIN calls[p] : calls[p][j].op = "GetItems"

\* C16: under repeated invocations a failed final List leaves the namespace
\* unchecked (the next invocation scans again) and the first successful one
\* checks it; so when the caller keeps calling and the List calls do not fail
\* forever, the namespace eventually is checked and stays checked for good.
C16_EventuallyCheckedForGood ==
  /\ []C16_UncheckedUntilSuccess
  /\ \A n \in Namespaces : <>[]cacheChecked[n]

\* An invocation found its namespace unchecked, its refresh succeeded, and
\* now every namespace is checked.
C16_Witness ==
  \E p \in Procs :
    /\ Returned(p) /\ UncheckedAtStart(p)
    /\ Len(ListCalls(p)) = 2 /\ FinalListOK(p)
    /\ \A n \in Namespaces : cacheChecked[n]

\* ----------------------------------------------------------------- C17
\* How far an invocation is from its return: the part of the function it is
\* in, and within the loop the work left on the items not yet examined.
Phase(p) ==
  CASE pc[p] = "list" -> 5
    [] pc[p] = "check" -> 4
    [] pc[p] \in {"scan", "get"} -> 3
    [] pc[p] = "refresh" -> 2
    [] pc[p] = "mark" -> 1
    [] OTHER -> 0

LoopLeft(p) ==
  IF pc[p] \in {"scan", "get"}
    THEN 2 * (Len(items[p]) + 1 - idx[p]) + (IF pc[p] = "scan" THEN 1 ELSE 0)
    ELSE 0

\* What an invocation has asked of the adapter so far.
C17_CallBudget ==
  \A p \in Procs :
    /\ Len(ListCalls(p)) <= 2
    /\ Len(ListCalls(p)) = 2 => ScanTriggered(p)
    /\ \A j \in DOMAIN calls[p] :
         calls[p][j].op = "Get" =>
           /\ calls[p][j].name \in DOMAIN Listed(p).Items
           /\ LacksStatus(Listed(p).Items[calls[p][j].name])
           /\ Len(GetsFor(p, calls[p][j].name)) = 1
    /\ \A i \in DOMAIN verdicts[p] : verdicts[p][i].item = Listed(p).Items[i]
    /\ pc[p] \in {"list", "check", "scan", "get", "refresh", "mark"} => ENABLED Advance(p)
    /\ Phase(p) >= 0 /\ LoopLeft(p) >= 0

\* C17: every invocation terminates (each of its steps brings it nearer to
\* its return) after at most two List calls and at most one Get per item of
\* the initial list; a Get is made only for an item listed without status,
\* the items are examined in list order, and the second List is made only if
\* a needRefresh call of the invocation returned true or an error.
C17_TerminatesWithinBudget ==
  /\ []C17_CallBudget
  /\ [][\A p \in Procs :
          (pc[p] \notin {"idle", "done", "fatal"} /\ (pc'[p] # pc[p] \/ idx'[p] # idx[p])) =>
            \/ Phase(p)' < Phase(p)
            \/ (Phase(p)' = Phase(p) /\ LoopLeft(p)' < LoopLeft(p))]_vars

\* A full list was scanned to its last item with one Get per item, the last
\* Get asked for the refresh, and the invocation returned after two Lists.
C17_Witness ==
  \E p \in Procs :
    /\ Returned(p)
    /\ Len(Listed(p).Items) = MaxItems
    /\ Len(GetCalls(p)) = MaxItems
    /\ Len(verdicts[p]) = MaxItems
    /\ Len(ListCalls(p)) = 2

\* ----------------------------------------------------------------- C18
\* A returned invocation has left the entries of the other namespaces alone,
\* and a checked namespace has had an invocation return a nil error.
C18_OnlyOwnEntry ==
  /\ \A p \in Procs :
       Returned(p) =>
         \A n \in Namespaces \ {namespace[p]} : cacheChecked[n] = memoAtStart[p][n]
  /\ \A n \in Namespaces : cacheChecked[n] => n \in returnedOK

\* C18: an invocation for ns never changes the entry of another namespace;
\* the only change it makes to the memo is setting memo[ns] to true after a
\* List call of its own returned without error; so, from an empty memo,
\* memo[ns] = true implies that an invocation for ns has returned a nil error.
C18_MemoFrame ==
  /\ []C18_OnlyOwnEntry
  /\ [][\A n \in Namespaces :
          cacheChecked'[n] # cacheChecked[n] =>
            /\ cacheChecked'[n] = TRUE
            /\ \E p \in Procs :
                 /\ pc[p] = "mark" /\ pc'[p] = "done"
                 /\ namespace[p] = n
                 /\ LastList(p).err = NoErr
                 /\ ret'[p].err = NoErr]_vars

\* An invocation has checked its own namespace and the other one is still
\* unchecked.
C18_Witness ==
  \E p \in Procs :
    /\ Returned(p) /\ UncheckedAtStart(p)
    /\ cacheChecked[namespace[p]]
    /\ \E n \in Namespaces \ {namespace[p]} : ~cacheChecked[n]

====
